---- MODULE Spec2Model ----
(***************************************************************************)
(* Model of eventsourcing/postgres.py: the per-thread connection map of     *)
(* PostgresDatastore, Connection with its idle/closing events and expiry    *)
(* timer, the Transaction scope, and the recorders' operations running      *)
(* against a Postgres session (READ COMMITTED, unique indexes that make a   *)
(* second inserter wait for the first one's transaction, a SERIAL column    *)
(* fed by a sequence that is never rolled back).                            *)
(***************************************************************************)
EXTENDS Naturals, Sequences, FiniteSets, TLC

\* ---------------------------------------------------------------- bounds
MaxCalls == 2      \* insert_events calls made in one behaviour (all threads)
MaxReads == 2      \* select_notifications calls made by the consumer
MaxLimit == 2      \* largest limit the consumer passes
MaxInval == 2      \* timer expiries, database failures and close_all calls
MaxGen == 2        \* threads that are given the same thread identifier, one after another
MaxTricks == 3     \* add_trick calls made on one Dog

\* ---------------------------------------------------------------- data
Threads == {1, 2, 3}
Writers == {1, 2}
Reader == 3
Keys == {<<"a", 1>>, <<"a", 2>>}          \* (originator_id, originator_version)
TrkPairs == {<<"p", 1>>}                  \* (application_name, notification_id)
NoTrk == <<>>
\* What a call passes as tracking: always None, or None or a pair of TrkPairs.
Untracked == {<<>>}
TrackedOrNot == {<<>>, <<"p", 1>>}
\* A Connection object is named by the thread that created it and its rank
\* among that thread's connections.
\* A call creates at most one connection, and no thread makes more calls.
MaxPerThread == IF MaxCalls > MaxReads THEN MaxCalls ELSE MaxReads
Conns == Threads \X (1..MaxPerThread)
NoConn == <<0, 0>>

\* The batches a writer proposes: empty, one row, two rows in either order, and
\* a batch that holds the same key twice.
Batches == {<<>>, <<<<"a", 1>>>>, <<<<"a", 2>>>>, <<<<"a", 1>>, <<"a", 2>>>>,
            <<<<"a", 2>>, <<"a", 1>>>>, <<<<"a", 1>>, <<"a", 1>>>>}

\* A StoredEvent whose originator_id is None goes to the INSERT as NULL.
NullId == "null"
NullBatches == {<<<<"a", 1>>>>, <<<<NullId, 1>>>>, <<<<"a", 2>>, <<NullId, 1>>>>}

\* What the tables hold when the program starts: nothing, or a row and/or a
\* tracking record committed by an earlier run (call 0).
StoresAtStart ==
    {[ev |-> e, tr |-> t, seq |-> Cardinality(e)] :
        e \in {{}, {[key |-> <<"a", 1>>, nid |-> 1, by |-> 0, ct |-> 0]}},
        t \in {{}, {[pair |-> <<"p", 1>>, by |-> 0]}}}

VARIABLES
    pc,           \* where each thread is inside a recorder operation
    op,           \* the operation a thread runs (or ran last) and its arguments
    cur,          \* the Connection a thread holds in `c` / Transaction.c
    exc,          \* the exception travelling out of the with-block
    idx,          \* executemany's position in the batch
    wnid,         \* the notification id drawn by an insert that waits on a lock
    res,          \* how the thread's last operation returned
    connections,  \* PostgresDatastore._connections: thread -> Connection
    conn,         \* the Connection objects: is_idle, is_closing, c.closed, timer
    nconn,        \* Connection objects created so far, per thread
    events,       \* committed rows of the events table
    tracking,     \* committed rows of the tracking table
    seq,          \* the sequence behind notification_id SERIAL
    prow,         \* per session: rows inserted by its open transaction
    ptrk,         \* per session: tracking rows inserted by its open transaction
    ncall,        \* insert_events calls started
    overlap,      \* the two writers' current/last calls ran at the same time
    ncommit,      \* commits that wrote rows, in commit order
    received,     \* notification ids the consumer has received
    lastid,       \* the last id the consumer received
    nread,        \* select_notifications calls started
    redelivered,  \* the consumer was handed an id it had received before
    ret,          \* per thread: the list its last select_... or max_... call built
    did,          \* what Transaction.__exit__ last invoked for the thread
    hit,          \* what the thread's current call met: a failure of the database ("fault"),
                  \* the close of its open session under it ("closed"), or "none"
    cfg,          \* PostgresDatastore's conn_max_age (set or None) and pre_ping
    gen,          \* per thread identifier: how many threads have been given it so far
    closer,       \* the thread that runs close_all_connections(timeout)
    ninval,       \* timer expiries, database failures and close_all calls so far
    example       \* examples/aggregate5: the events of one Dog, the Dog they were
                  \* triggered on, and the name and the tricks the caller passed

thr == <<pc, op, cur, exc, idx, wnid, res, did, hit>>
pool == <<connections, conn, nconn>>
db == <<events, tracking, seq, prow, ptrk>>
hist == <<ncall, overlap, ncommit>>
cons == <<received, lastid, nread, redelivered, ret>>
conf == <<cfg, gen, example>>
env == <<conf, closer, ninval>>
vars == <<thr, pool, db, hist, cons, env>>

NoOp == [kind |-> "none", batch |-> <<>>, trk |-> NoTrk, dup |-> FALSE, id |-> 0,
         start |-> 0, limit |-> 0, stale |-> NoConn, unfit |-> NoConn,
         oid |-> "", gt |-> {}, lte |-> {}, desc |-> FALSE, lim |-> {}, app |-> "",
         after |-> "none", prev |-> NoConn]
\* Python's None where an aggregate is expected.
None == [kind |-> "None"]
IdleCloser == [pc |-> "idle", seen |-> {}, c |-> NoConn, size |-> 0, timeout |-> FALSE]
FreshConn == [is_idle |-> FALSE, is_closing |-> FALSE, closed |-> FALSE, timer |-> "none",
              maker |-> 0]

InitState(stores) ==
    /\ pc = [t \in Threads |-> "idle"]
    /\ op = [t \in Threads |-> NoOp]
    /\ cur = [t \in Threads |-> NoConn]
    /\ exc = [t \in Threads |-> "none"]
    /\ idx = [t \in Threads |-> 1]
    /\ wnid = [t \in Threads |-> 0]
    /\ res = [t \in Threads |-> "none"]
    /\ connections = [t \in Threads |-> NoConn]
    /\ conn = [c \in Conns |-> FreshConn]
    /\ nconn = [t \in Threads |-> 0]
    /\ \E st \in stores :
           /\ events = st.ev
           /\ tracking = st.tr
           /\ seq = st.seq
    /\ prow = [c \in Conns |-> {}]
    /\ ptrk = [c \in Conns |-> {}]
    /\ ncall = 0
    /\ overlap = FALSE
    /\ ncommit = 0
    /\ received = {}
    /\ lastid = 0
    /\ nread = 0
    /\ redelivered = FALSE
    /\ ret = [t \in Threads |-> <<>>]
    /\ did = [t \in Threads |-> "none"]
    /\ hit = [t \in Threads |-> "none"]
    /\ gen = [t \in Threads |-> 1]
    /\ closer = IdleCloser
    /\ ninval = 0
    /\ example = [events |-> <<>>, dog |-> None, name |-> "", tricks |-> <<>>]

\* The default configuration of Factory: no conn_max_age, no pre_ping.
Init ==
    /\ InitState(StoresAtStart)
    /\ cfg = [max_age |-> FALSE, pre_ping |-> FALSE]

\* ---------------------------------------------------------------- helpers
HasKey(rows, k) == \E r \in rows : r.key = k
HasPair(rows, p) == \E r \in rows : r.pair = p
Max(S) == IF S = {} THEN 0 ELSE CHOOSE x \in S : \A y \in S : y <= x

\* Where the body of insert_events goes next: the next row of executemany,
\* then the tracking insert of PostgresProcessRecorder, then the scope's exit.
AfterRow(o, i) ==
    IF i <= Len(o.batch) THEN "ins"
    ELSE IF o.trk # NoTrk THEN "trk" ELSE "exit"

BodyPc(o) ==
    IF o.kind = "insert" THEN AfterRow(o, 1)
    ELSE IF o.kind = "notifications" THEN "sel"
    ELSE IF o.kind = "events" THEN "sev"
    ELSE IF o.kind = "max_notification_id" THEN "mxn"
    ELSE IF o.kind = "max_tracking_id" THEN "mxt" ELSE "rd"

\* The thread's pooled connection, when its session is already closed as the
\* call begins.
Stale(t) ==
    IF connections[t] # NoConn /\ conn[connections[t]].closed THEN connections[t] ELSE NoConn

\* The thread's pooled connection, when its closing flag is set or its session
\* is closed as the call begins.
Unfit(t) ==
    IF connections[t] # NoConn
       /\ (conn[connections[t]].is_closing \/ conn[connections[t]].closed)
    THEN connections[t] ELSE NoConn

\* ---------------------------------------------------------------- calls
\* A writer thread calls insert_events(stored_events, tracking=...). (The
\* call keeps how the thread's previous call returned, and on which connection.)
CallInsert(t, batches, trks) ==
    /\ pc[t] = "idle"
    /\ ncall < MaxCalls
    /\ \E b \in batches, k \in trks :
           op' = [op EXCEPT ![t] =
                     [kind |-> "insert", batch |-> b, trk |-> k,
                      dup |-> (k # NoTrk /\ HasPair(tracking, k)),
                      id |-> ncall + 1, start |-> 0, limit |-> 0,
                      stale |-> Stale(t), unfit |-> Unfit(t),
                      after |-> res[t], prev |-> cur[t]]]
    /\ ncall' = ncall + 1
    /\ overlap' = (\E u \in Writers \ {t} : pc[u] # "idle")
    /\ pc' = [pc EXCEPT ![t] = "tx_lookup"]
    /\ exc' = [exc EXCEPT ![t] = "none"]
    /\ idx' = [idx EXCEPT ![t] = 1]
    /\ res' = [res EXCEPT ![t] = "none"]
    /\ did' = [did EXCEPT ![t] = "none"]
    /\ hit' = [hit EXCEPT ![t] = "none"]
    /\ UNCHANGED <<cur, wnid, pool, db, ncommit, cons, env>>

\* The consumer calls select_notifications(start, limit) with start one past
\* the last id it received.
CallNotifications(t) ==
    /\ pc[t] = "idle"
    /\ nread < MaxReads
    /\ \E l \in 1..MaxLimit :
           op' = [op EXCEPT ![t] =
                     [kind |-> "notifications", batch |-> <<>>, trk |-> NoTrk,
                      dup |-> FALSE, id |-> 0, start |-> lastid + 1, limit |-> l,
                      stale |-> Stale(t), unfit |-> Unfit(t)]]
    /\ nread' = nread + 1
    /\ pc' = [pc EXCEPT ![t] = "tx_lookup"]
    /\ exc' = [exc EXCEPT ![t] = "none"]
    /\ res' = [res EXCEPT ![t] = "none"]
    /\ did' = [did EXCEPT ![t] = "none"]
    /\ hit' = [hit EXCEPT ![t] = "none"]
    /\ ret' = [ret EXCEPT ![t] = <<>>]
    /\ UNCHANGED <<cur, idx, wnid, pool, db, hist, received, lastid, redelivered, env>>

\* ---------------------------------------------------------------- PostgresDatastore.transaction
\* c = self._connections[thread_id]; c.is_idle.clear(), or KeyError. (The
\* lookup reads only the map, the clear writes only the event: one step.)
TxLookup(t) ==
    /\ pc[t] = "tx_lookup"
    /\ IF connections[t] = NoConn
       THEN /\ pc' = [pc EXCEPT ![t] = "tx_create"]
            /\ cur' = [cur EXCEPT ![t] = NoConn]
            /\ conn' = conn
       ELSE /\ pc' = [pc EXCEPT ![t] = "tx_check"]
            /\ cur' = [cur EXCEPT ![t] = connections[t]]
            /\ conn' = [conn EXCEPT ![connections[t]].is_idle = FALSE]
    /\ UNCHANGED <<op, exc, idx, wnid, res, did, connections, nconn, db, hist, cons, hit, env>>

\* Mutant: the stored connection is never replaced for being closing or closed.
TxCheckTarget_NoRecreate(c) == IF cfg.pre_ping THEN "tx_ping" ELSE "enter"

\* Mutant: only c.is_closed is tested.
TxCheckTarget_IgnoresClosing(c) ==
    IF conn[c].closed THEN "tx_create"
    ELSE IF cfg.pre_ping THEN "tx_ping" ELSE "enter"

\* if c.is_closing.is_set() or c.is_closed: ... elif self.pre_ping: ...

TxCheckTarget(c) ==
    IF conn[c].is_closing \/ conn[c].closed THEN "tx_create"
    ELSE IF cfg.pre_ping THEN "tx_ping" ELSE "enter"

TxCheck(t) ==
    /\ pc[t] = "tx_check"
    /\ pc' = [pc EXCEPT ![t] = TxCheckTarget(cur[t])]
    /\ UNCHANGED <<op, cur, exc, idx, wnid, res, did, pool, db, hist, cons, hit, env>>

\* _create_connection: a new Connection (is_idle and is_closing not set, the
\* timer started when max_age is given) stored under the thread's id.
NewConnection(t) ==
    [FreshConn EXCEPT !.timer = IF cfg.max_age THEN "armed" ELSE "none", !.maker = gen[t]]

CreateConnection(t) ==
    /\ nconn[t] < MaxPerThread
    /\ nconn' = [nconn EXCEPT ![t] = @ + 1]
    /\ conn' = [conn EXCEPT ![<<t, nconn[t] + 1>>] = NewConnection(t)]
    /\ connections' = [connections EXCEPT ![t] = <<t, nconn[t] + 1>>]
    /\ cur' = [cur EXCEPT ![t] = <<t, nconn[t] + 1>>]
    /\ closer' = IF connections[t] = NoConn
                 THEN [closer EXCEPT !.seen = @ \ {t}]   \* a new key goes to the end of the dict
                 ELSE closer

TxCreate(t) ==
    /\ pc[t] = "tx_create"
    /\ CreateConnection(t)
    /\ pc' = [pc EXCEPT ![t] = "enter"]
    /\ UNCHANGED <<op, exc, idx, wnid, res, did, db, hist, cons, hit, conf, ninval>>

\* ---------------------------------------------------------------- Transaction
\* __enter__: return self.c.cursor(); psycopg2 raises InterfaceError on a
\* closed connection, and then __exit__ does not run.
Enter(t) ==
    /\ pc[t] = "enter"
    /\ IF conn[cur[t]].closed
       THEN /\ pc' = [pc EXCEPT ![t] = "cc_pop"]
            /\ exc' = [exc EXCEPT ![t] = "error"]
       ELSE /\ pc' = [pc EXCEPT ![t] = BodyPc(op[t])]
            /\ exc' = exc
    /\ UNCHANGED <<op, cur, idx, wnid, res, did, pool, db, hist, cons, hit, env>>

\* The rows a commit of session c makes visible, stamped with the commit's rank.
Committed(c) == {[key |-> r.key, nid |-> r.nid, by |-> r.by, ct |-> ncommit + 1] : r \in prow[c]}

\* What __exit__ invokes: rollback() when the body raised, else commit().
ExitInvokes(e) == IF e # "none" THEN "rollback" ELSE "commit"

\* The exception that leaves __exit__: the one commit()/rollback() raises on a
\* closed connection, else the body's.
ExitRaises(c, e) == IF conn[c].closed THEN "error" ELSE e

\* Where insert_events/select_... goes with the exception e: no exception is a
\* normal return, IntegrityError in insert_events becomes RecordConflictError,
\* any other psycopg2.Error runs close_connection().
\* psycopg2.IntegrityError and its subclasses: UniqueViolation ("integrity")
\* and NotNullViolation ("notnull").
IntegrityErrors == {"integrity", "notnull"}

HandlerPc(o, e) ==
    IF e = "none" \/ (e \in IntegrityErrors /\ o.kind = "insert") THEN "idle" ELSE "cc_pop"

HandlerRes(o, e) ==
    IF e = "none" THEN "ok"
    ELSE IF e \in IntegrityErrors /\ o.kind = "insert" THEN "conflict" ELSE "none"

\* The operation returns: the locals of the call are gone.
Return(t, r) ==
    /\ pc' = [pc EXCEPT ![t] = "idle"]
    /\ res' = [res EXCEPT ![t] = r]
    /\ exc' = [exc EXCEPT ![t] = "none"]
    /\ idx' = [idx EXCEPT ![t] = 1]
    /\ wnid' = [wnid EXCEPT ![t] = 0]

\* finally: self.c.is_idle.set(): the flag is set and every thread blocked in
\* is_idle.wait() is woken; its wait returns also when the flag is cleared
\* again before it runs.
\* Mutant: __exit__ does not set is_idle.
ExitIdle_NotSet(c) == conn

\* Mutant: is_idle.set() after the try block, not in its finally clause.
ExitIdle_UnlessRaised(c) ==
    IF conn[c].closed THEN conn ELSE [conn EXCEPT ![c].is_idle = TRUE]

ExitIdle(c) ==
    [conn EXCEPT ![c].is_idle = TRUE, ![c].timer = IF @ = "wait" THEN "close" ELSE @]

ExitWakes(c) ==
    IF closer.pc = "wait" /\ closer.c = c THEN [closer EXCEPT !.pc = "phys"] ELSE closer

Exit(t) ==
    /\ pc[t] = "exit"
    /\ LET c == cur[t]
           call == ExitInvokes(exc[t])
           e == ExitRaises(c, exc[t])
       IN  /\ did' = [did EXCEPT ![t] = call]
           /\ IF conn[c].closed
              THEN UNCHANGED <<events, tracking, prow, ptrk, ncommit>>
              ELSE /\ prow' = [prow EXCEPT ![c] = {}]
                   /\ ptrk' = [ptrk EXCEPT ![c] = {}]
                   /\ IF call = "commit"
                      THEN /\ events' = events \cup Committed(c)
                           /\ tracking' = tracking \cup ptrk[c]
                           /\ ncommit' = IF prow[c] # {} THEN ncommit + 1 ELSE ncommit
                      ELSE UNCHANGED <<events, tracking, ncommit>>
           /\ conn' = ExitIdle(c)
           /\ closer' = ExitWakes(c)
           /\ IF HandlerPc(op[t], e) = "idle"
              THEN Return(t, HandlerRes(op[t], e))
              ELSE /\ pc' = [pc EXCEPT ![t] = "cc_pop"]
                   /\ exc' = [exc EXCEPT ![t] = e]
                   /\ UNCHANGED <<res, idx, wnid>>
    /\ UNCHANGED <<op, cur, connections, nconn, seq, ncall, overlap, cons, hit, conf, ninval>>

\* ---------------------------------------------------------------- close_connection
\* c = self._connections.pop(thread_id); KeyError: pass
PopConnection(t) == [connections EXCEPT ![t] = NoConn]

\* Connection.close, lines 55-57: timer.cancel(); is_closing.set()
CloseBegin(c) ==
    [conn EXCEPT ![c].is_closing = TRUE,
                 ![c].timer = IF @ = "armed" THEN "cancelled" ELSE @]

\* Connection.close, line 59: self.c.close()
ClosePhysical(c) == [conn EXCEPT ![c].closed = TRUE]

\* close_connection() up to the wait inside c.close(); with no entry for the
\* thread it passes and OperationalError is raised at once.
CcPop(t) ==
    /\ pc[t] = "cc_pop"
    /\ connections' = PopConnection(t)
    /\ IF connections[t] = NoConn
       THEN /\ Return(t, "operr")
            /\ UNCHANGED <<cur, conn>>
       ELSE /\ pc' = [pc EXCEPT ![t] = "cc_wait"]
            /\ cur' = [cur EXCEPT ![t] = connections[t]]
            /\ conn' = CloseBegin(connections[t])
            /\ UNCHANGED <<res, exc, idx, wnid>>
    /\ UNCHANGED <<op, did, nconn, db, hist, cons, hit, env>>

\* Connection.close, lines 58-59: self.is_idle.wait(timeout=None), then
\* self.c.close(): the server ends the session and rolls back what its open
\* transaction wrote. Then raise OperationalError(e).
CcWait(t) ==
    /\ pc[t] = "cc_wait"
    /\ conn[cur[t]].is_idle
    /\ conn' = ClosePhysical(cur[t])
    /\ prow' = [prow EXCEPT ![cur[t]] = {}]
    /\ ptrk' = [ptrk EXCEPT ![cur[t]] = {}]
    /\ Return(t, "operr")
    /\ UNCHANGED <<op, cur, did, connections, nconn, events, tracking, seq, hist, cons, hit, env>>

\* ---------------------------------------------------------------- the session's statements
\* A statement that fails aborts the session's transaction at once: the server
\* drops what it wrote and releases its locks; the later rollback() ends the block.
OtherHoldsKey(c, k) == \E d \in Conns \ {c} : HasKey(prow[d], k)
OtherHoldsPair(c, p) == \E d \in Conns \ {c} : HasPair(ptrk[d], p)

\* Mutant: the events table has no primary key, nothing is refused.
KeyTaken_NoPrimaryKey(c, k) == FALSE

\* originator_id uuid NOT NULL refuses the row.
NullRefused(k) == k[1] = NullId

\* The unique index on (originator_id, originator_version) refuses the row.
KeyTaken(c, k) == HasKey(events, k) \/ HasKey(prow[c], k)

\* Mutant: the tracking table has no primary key, nothing is refused.
PairTaken_NoPrimaryKey(c, p) == FALSE

\* The unique index on (application_name, notification_id) refuses the row.
PairTaken(c, p) == HasPair(tracking, p) \/ HasPair(ptrk[c], p)

Fail(t, e) ==
    /\ events' = events
    /\ prow' = [prow EXCEPT ![cur[t]] = {}]
    /\ ptrk' = [ptrk EXCEPT ![cur[t]] = {}]
    /\ exc' = [exc EXCEPT ![t] = e]
    /\ pc' = [pc EXCEPT ![t] = "exit"]

\* The row INSERT INTO events VALUES (%s, %s, %s, %s) writes; notification_id
\* is not among the values, so the SERIAL default n fills it.
NewRow(t, k, n) == [key |-> k, nid |-> n, by |-> op[t].id]

\* Mutant: the session runs in autocommit mode, each row is committed as it
\* is inserted.
Stored_Autocommit(t, k, n) ==
    /\ events' = events \cup {[key |-> k, nid |-> n, by |-> op[t].id, ct |-> ncommit]}
    /\ idx' = [idx EXCEPT ![t] = @ + 1]
    /\ pc' = [pc EXCEPT ![t] = AfterRow(op[t], idx[t] + 1)]
    /\ UNCHANGED <<prow, ptrk, exc>>

\* The insert went through: the row belongs to the session's open transaction.
Stored(t, k, n) ==
    /\ events' = events
    /\ prow' = [prow EXCEPT ![cur[t]] = @ \cup {NewRow(t, k, n)}]
    /\ idx' = [idx EXCEPT ![t] = @ + 1]
    /\ pc' = [pc EXCEPT ![t] = AfterRow(op[t], idx[t] + 1)]
    /\ UNCHANGED <<ptrk, exc>>

\* _insert_events: one row of c.executemany(self.insert_events_statement, params).
\* The default nextval() is taken before the unique index is consulted, so a
\* refused or waiting insert has used an id as well.
InsertRow(t) ==
    /\ pc[t] = "ins"
    /\ LET c == cur[t]
           k == op[t].batch[idx[t]]
       IN  IF conn[c].closed
           THEN /\ Fail(t, "error")
                /\ UNCHANGED <<seq, idx, wnid>>
           ELSE /\ seq' = seq + 1
                /\ IF NullRefused(k)
                   THEN /\ Fail(t, "notnull")
                        /\ UNCHANGED <<idx, wnid>>
                   ELSE IF KeyTaken(c, k)
                   THEN /\ Fail(t, "integrity")
                        /\ UNCHANGED <<idx, wnid>>
                   ELSE IF OtherHoldsKey(c, k)
                   THEN /\ wnid' = [wnid EXCEPT ![t] = seq + 1]
                        /\ pc' = [pc EXCEPT ![t] = "ins_wait"]
                        /\ UNCHANGED <<events, prow, ptrk, exc, idx>>
                   ELSE /\ Stored(t, k, seq + 1)
                        /\ wnid' = wnid
    /\ UNCHANGED <<op, cur, res, did, pool, tracking, hist, cons, hit, env>>

\* The insert waited for the transaction that holds the same key; that one has
\* committed (the row is refused) or rolled back (the row goes in).
InsertResume(t) ==
    /\ pc[t] = "ins_wait"
    /\ LET c == cur[t]
           k == op[t].batch[idx[t]]
       IN  /\ conn[c].closed \/ ~OtherHoldsKey(c, k)
           /\ IF conn[c].closed
              THEN /\ Fail(t, "error")
                   /\ idx' = idx
              ELSE IF KeyTaken(c, k)
              THEN /\ Fail(t, "integrity")
                   /\ idx' = idx
              ELSE Stored(t, k, wnid[t])
    /\ UNCHANGED <<op, cur, wnid, res, did, pool, tracking, seq, hist, cons, hit, env>>

\* PostgresProcessRecorder._insert_events: c.execute(self.insert_tracking_statement, ...)
InsertTracking(t) ==
    /\ pc[t] \in {"trk", "trk_wait"}
    /\ LET c == cur[t]
           p == op[t].trk
       IN  IF conn[c].closed
           THEN Fail(t, "error")
           ELSE IF PairTaken(c, p)
           THEN Fail(t, "integrity")
           ELSE IF OtherHoldsPair(c, p)
           THEN /\ pc[t] = "trk"
                /\ pc' = [pc EXCEPT ![t] = "trk_wait"]
                /\ UNCHANGED <<events, prow, ptrk, exc>>
           ELSE /\ ptrk' = [ptrk EXCEPT ![c] = @ \cup {[pair |-> p, by |-> op[t].id]}]
                /\ pc' = [pc EXCEPT ![t] = "exit"]
                /\ UNCHANGED <<events, prow, exc>>
    /\ UNCHANGED <<op, cur, idx, wnid, res, did, pool, tracking, seq, hist, cons, hit, env>>

\* The threads whose open transaction holds what t's statement waits for.
Blockers(t) ==
    IF pc[t] = "ins_wait"
    THEN {u \in Threads \ {t} : cur[u] # cur[t] /\ cur[u] # NoConn
                                /\ HasKey(prow[cur[u]], op[t].batch[idx[t]])}
    ELSE IF pc[t] = "trk_wait"
    THEN {u \in Threads \ {t} : cur[u] # cur[t] /\ cur[u] # NoConn
                                /\ HasPair(ptrk[cur[u]], op[t].trk)}
    ELSE {}

RECURSIVE WaitsOn(_, _)
WaitsOn(S, n) ==
    IF n = 0 THEN S
    ELSE WaitsOn(S \cup UNION {Blockers(u) : u \in S}, n - 1)

InDeadlock(t) == t \in WaitsOn(Blockers(t), Cardinality(Threads))

\* The server's deadlock detector aborts one transaction of a cycle of waits:
\* psycopg2.errors.DeadlockDetected, a psycopg2.OperationalError.
DeadlockDetected(t) ==
    /\ pc[t] \in {"ins_wait", "trk_wait"}
    /\ InDeadlock(t)
    /\ Fail(t, "error")
    /\ UNCHANGED <<op, cur, idx, wnid, res, did, pool, tracking, seq, hist, cons, hit, env>>

\* select_notifications_statement: WHERE notification_id>=%s ORDER BY
\* notification_id LIMIT %s, over the committed rows.
RECURSIVE Smallest(_, _)
Smallest(S, n) ==
    IF n = 0 \/ S = {} THEN {}
    ELSE LET m == CHOOSE x \in S : \A y \in S : x <= y
         IN  {m} \cup Smallest(S \ {m}, n - 1)

\* Mutant: WHERE notification_id>%s
SelectNotifications_StartExclusive(start, limit) ==
    Smallest({r.nid : r \in {e \in events : e.nid > start}}, limit)

SelectNotifications(start, limit) ==
    Smallest({r.nid : r \in {e \in events : e.nid >= start}}, limit)

\* The rows of c.fetchall(), in the order of ORDER BY notification_id.
RECURSIVE Ascending(_)
Ascending(S) ==
    IF S = {} THEN <<>>
    ELSE LET m == CHOOSE x \in S : \A y \in S : x <= y
         IN  <<m>> \o Ascending(S \ {m})

SelectNotificationsStep(t) ==
    /\ pc[t] = "sel"
    /\ IF conn[cur[t]].closed
       THEN /\ exc' = [exc EXCEPT ![t] = "error"]
            /\ UNCHANGED <<received, lastid, redelivered, ret>>
       ELSE LET got == SelectNotifications(op[t].start, op[t].limit)
            IN  /\ ret' = [ret EXCEPT ![t] = Ascending(got)]
                /\ received' = received \cup got
                /\ lastid' = IF got = {} THEN lastid ELSE Max(got)
                /\ redelivered' = (redelivered \/ got \cap received # {})
                /\ exc' = exc
    /\ pc' = [pc EXCEPT ![t] = "exit"]
    /\ UNCHANGED <<op, cur, idx, wnid, res, did, pool, db, hist, nread, hit, env>>

\* ---------------------------------------------------------------- select_events
\* An optional argument is the empty set (None) or the set of its one value.
Ids == {"a", "b"}
Gts == {{}, {1}}
Ltes == {{}, {2}}
Lims == {IF n = 0 THEN {} ELSE {n} : n \in 0..MaxLimit}

\* select_events(originator_id, gt, lte, desc, limit) is called.
CallSelectEvents(t) ==
    /\ pc[t] = "idle"
    /\ \E i \in Ids, g \in Gts, l \in Ltes, d \in BOOLEAN, n \in Lims :
           op' = [op EXCEPT ![t] =
                     [NoOp EXCEPT !.kind = "events", !.oid = i, !.gt = g, !.lte = l,
                                  !.desc = d, !.lim = n]]
    /\ pc' = [pc EXCEPT ![t] = "tx_lookup"]
    /\ exc' = [exc EXCEPT ![t] = "none"]
    /\ res' = [res EXCEPT ![t] = "none"]
    /\ did' = [did EXCEPT ![t] = "none"]
    /\ hit' = [hit EXCEPT ![t] = "none"]
    /\ ret' = [ret EXCEPT ![t] = <<>>]
    /\ UNCHANGED <<cur, idx, wnid, pool, db, hist, received, lastid, nread, redelivered, env>>

\* Mutant: AND originator_version >= %s for gt.
Where_GtInclusive(o) ==
    LET rows == {e \in events :
                    /\ e.key[1] = o.oid
                    /\ \A g \in o.gt : e.key[2] >= g
                    /\ \A l \in o.lte : e.key[2] <= l}
    IN  {r.key : r \in rows}

\* WHERE originator_id = %s [AND originator_version > %s]
\* [AND originator_version <= %s], over the committed rows.
Where(o) ==
    LET rows == {e \in events :
                    /\ e.key[1] = o.oid
                    /\ \A g \in o.gt : e.key[2] > g
                    /\ \A l \in o.lte : e.key[2] <= l}
    IN  {r.key : r \in rows}

\* ORDER BY originator_version ASC | DESC
RECURSIVE OrderBy(_, _)
OrderBy(S, desc) ==
    IF S = {} THEN <<>>
    ELSE LET first == CHOOSE k \in S :
                          \A j \in S : IF desc THEN j[2] <= k[2] ELSE k[2] <= j[2]
         IN  <<first>> \o OrderBy(S \ {first}, desc)

\* [LIMIT %s]
Limit(rows, lim) ==
    IF lim = {} THEN rows
    ELSE LET n == CHOOSE n \in lim : TRUE
         IN  SubSeq(rows, 1, IF n < Len(rows) THEN n ELSE Len(rows))

\* c.execute(statement, params); the rows of c.fetchall() appended in order.
SelectEventsStep(t) ==
    /\ pc[t] = "sev"
    /\ IF conn[cur[t]].closed
       THEN /\ exc' = [exc EXCEPT ![t] = "error"]
            /\ ret' = ret
       ELSE /\ ret' = [ret EXCEPT ![t] = Limit(OrderBy(Where(op[t]), op[t].desc), op[t].lim)]
            /\ exc' = exc
    /\ pc' = [pc EXCEPT ![t] = "exit"]
    /\ UNCHANGED <<op, cur, idx, wnid, res, did, pool, db, hist, received, lastid, nread,
                   redelivered, hit, env>>

\* ---------------------------------------------------------------- max_notification_id, max_tracking_id
\* The applications whose positions the tracking table records, and the
\* tracking pairs a writer proposes.
Apps == {"p", "q"}
TrackedPairs == {<<"p", 1>>, <<"p", 2>>, <<"q", 3>>}
TrackedPairsOrNot == {<<>>, <<"p", 1>>, <<"p", 2>>, <<"q", 3>>}

\* The call of a recorder method that reads one maximum.
CallMax(t, kind, app) ==
    /\ pc[t] = "idle"
    /\ nread < MaxReads
    /\ nread' = nread + 1
    /\ op' = [op EXCEPT ![t] = [NoOp EXCEPT !.kind = kind, !.app = app]]
    /\ pc' = [pc EXCEPT ![t] = "tx_lookup"]
    /\ exc' = [exc EXCEPT ![t] = "none"]
    /\ res' = [res EXCEPT ![t] = "none"]
    /\ did' = [did EXCEPT ![t] = "none"]
    /\ hit' = [hit EXCEPT ![t] = "none"]
    /\ ret' = [ret EXCEPT ![t] = <<>>]
    /\ UNCHANGED <<cur, idx, wnid, pool, db, hist, received, lastid, redelivered, env>>

\* max_notification_id() is called.
CallMaxNotificationId(t) ==
    /\ pc[t] = "idle"
    /\ CallMax(t, "max_notification_id", "")

\* max_tracking_id(application_name) is called.
CallMaxTrackingId(t) ==
    /\ pc[t] = "idle"
    /\ \E a \in Apps : CallMax(t, "max_tracking_id", a)

\* The aggregate MAX(notification_id): NULL (the empty set) over no rows.
SqlMax(S) == IF S = {} THEN {} ELSE {Max(S)}

\* c.fetchone()[0] or 0
OrZero(v) == IF v = {} \/ v = {0} THEN 0 ELSE CHOOSE n \in v : TRUE

\* Mutant: the last value drawn from the sequence of the SERIAL column.
MaxNotificationId_LastDrawn == SqlMax(1..seq)

\* SELECT MAX(notification_id) FROM events, over the committed rows.
MaxNotificationId == SqlMax({e.nid : e \in events})

\* Mutant: the statement has no WHERE clause.
MaxTrackingId_AnyApplication(app) == SqlMax({r.pair[2] : r \in tracking})

\* SELECT MAX(notification_id) FROM tracking WHERE application_name=%s, over
\* the committed rows.
MaxTrackingId(app) ==
    LET rows == {r \in tracking : r.pair[1] = app}
    IN  SqlMax({r.pair[2] : r \in rows})

\* c.execute(statement[, params]); return c.fetchone()[0] or 0.
MaxStep(t, at, found) ==
    /\ pc[t] = at
    /\ IF conn[cur[t]].closed
       THEN /\ exc' = [exc EXCEPT ![t] = "error"]
            /\ ret' = ret
       ELSE /\ ret' = [ret EXCEPT ![t] = <<OrZero(found)>>]
            /\ exc' = exc
    /\ pc' = [pc EXCEPT ![t] = "exit"]
    /\ UNCHANGED <<op, cur, idx, wnid, res, did, pool, db, hist, received, lastid, nread,
                   redelivered, hit, env>>

MaxNotificationIdStep(t) ==
    /\ pc[t] = "mxn"
    /\ MaxStep(t, "mxn", MaxNotificationId)

MaxTrackingIdStep(t) ==
    /\ pc[t] = "mxt"
    /\ MaxStep(t, "mxt", MaxTrackingId(op[t].app))

\* select_events, max_notification_id, max_tracking_id, create_table: one
\* statement that reads (or changes nothing the model keeps).
CallRead(t, counted) ==
    /\ pc[t] = "idle"
    /\ counted => nread < MaxReads
    /\ nread' = IF counted THEN nread + 1 ELSE nread
    /\ op' = [op EXCEPT ![t] = [NoOp EXCEPT !.kind = "read", !.stale = Stale(t), !.unfit = Unfit(t)]]
    /\ pc' = [pc EXCEPT ![t] = "tx_lookup"]
    /\ exc' = [exc EXCEPT ![t] = "none"]
    /\ res' = [res EXCEPT ![t] = "none"]
    /\ did' = [did EXCEPT ![t] = "none"]
    /\ hit' = [hit EXCEPT ![t] = "none"]
    /\ UNCHANGED <<cur, idx, wnid, pool, db, hist, received, lastid, redelivered, ret, env>>

ReadStep(t) ==
    /\ pc[t] = "rd"
    /\ exc' = [exc EXCEPT ![t] = IF conn[cur[t]].closed THEN "error" ELSE @]
    /\ pc' = [pc EXCEPT ![t] = "exit"]
    /\ UNCHANGED <<op, cur, idx, wnid, res, did, pool, db, hist, cons, hit, env>>

\* transaction(), lines 123-127: c.cursor().execute("SELECT 1"); a psycopg2.Error
\* (the session is closed) makes a new connection.
TxPing(t) ==
    /\ pc[t] = "tx_ping"
    /\ pc' = [pc EXCEPT ![t] = IF conn[cur[t]].closed THEN "tx_create" ELSE "enter"]
    /\ UNCHANGED <<op, cur, exc, idx, wnid, res, did, pool, db, hist, cons, hit, env>>

\* The ping fails with a psycopg2.Error on an open session (the server cancels
\* it, the link drops): transaction() makes a new connection.
PingFails(t) ==
    /\ pc[t] = "tx_ping"
    /\ ninval < MaxInval
    /\ ninval' = ninval + 1
    /\ hit' = [hit EXCEPT ![t] = "fault"]
    /\ pc' = [pc EXCEPT ![t] = "tx_create"]
    /\ UNCHANGED <<op, cur, exc, idx, wnid, res, did, pool, db, hist, cons, conf, closer>>

\* ---------------------------------------------------------------- failures of the database
InBody(t) ==
    pc[t] \in {"ins", "ins_wait", "trk", "trk_wait", "sel", "sev", "mxn", "mxt", "rd"}

\* A statement fails with a psycopg2.Error that is no IntegrityError (the
\* server cancels it, the link drops): the transaction is aborted.
StatementFails(t) ==
    /\ InBody(t)
    /\ ninval < MaxInval
    /\ ninval' = ninval + 1
    /\ hit' = [hit EXCEPT ![t] = "fault"]
    /\ Fail(t, "error")
    /\ UNCHANGED <<op, cur, idx, wnid, res, did, pool, tracking, seq, hist, cons, conf, closer>>

\* psycopg2.connect raises in _create_connection: transaction() raises, the
\* with-block is never entered, the handler runs close_connection().
ConnectFails(t) ==
    /\ pc[t] = "tx_create"
    /\ ninval < MaxInval
    /\ ninval' = ninval + 1
    /\ hit' = [hit EXCEPT ![t] = "fault"]
    /\ pc' = [pc EXCEPT ![t] = "cc_pop"]
    /\ exc' = [exc EXCEPT ![t] = "error"]
    /\ UNCHANGED <<op, cur, idx, wnid, res, did, pool, db, hist, cons, conf, closer>>

\* ---------------------------------------------------------------- the expiry timer
\* The open session of c is closed under the threads that hold c in a call.
HitBy(c) ==
    [t \in Threads |->
        IF hit[t] = "none" /\ pc[t] \notin {"idle", "tx_lookup"} /\ cur[t] = c /\ ~conn[c].closed
        THEN "closed" ELSE hit[t]]

\* self.is_idle.wait(timeout) returns at once when the flag is set; else the
\* caller blocks until set() wakes it or the timeout runs out.
\* Mutant: close() does not wait for the idle flag.
IdleWaitOver_NoWait(c) == TRUE

IdleWaitOver(c) == conn[c].is_idle

\* Timer(interval=max_age, function=self.close_on_timer) goes off:
\* close_on_timer -> close(): timer.cancel(); is_closing.set();
\* self.is_idle.wait(timeout=None), which blocks in "wait" when the flag is
\* clear. Only transaction() reads is_closing, after it has cleared is_idle, so
\* setting the one and testing the other are taken as one step.
TimerFire(c) ==
    /\ conn[c].timer = "armed"
    /\ ninval < MaxInval
    /\ ninval' = ninval + 1
    /\ conn' = [conn EXCEPT ![c].is_closing = TRUE,
                            ![c].timer = IF IdleWaitOver(c) THEN "close" ELSE "wait"]
    /\ UNCHANGED <<thr, connections, nconn, db, hist, cons, conf, closer>>

\* close_on_timer: self.c.close()
TimerClose(c) ==
    /\ conn[c].timer = "close"
    /\ conn' = [ClosePhysical(c) EXCEPT ![c].timer = "done"]
    /\ prow' = [prow EXCEPT ![c] = {}]
    /\ ptrk' = [ptrk EXCEPT ![c] = {}]
    /\ hit' = HitBy(c)
    /\ UNCHANGED <<pc, op, cur, exc, idx, wnid, res, did, connections, nconn,
                   events, tracking, seq, hist, cons, env>>

\* ---------------------------------------------------------------- close_all_connections
Entries == {t \in Threads : connections[t] # NoConn}

\* close_all_connections(timeout) is called (by __del__ with timeout=1, by a
\* caller with a timeout or with None): the iteration over
\* self._connections.values() starts.
CloseAllStart ==
    /\ closer.pc = "idle"
    /\ ninval < MaxInval
    /\ ninval' = ninval + 1
    /\ \E to \in BOOLEAN :
           closer' = [pc |-> "iter", seen |-> {}, c |-> NoConn,
                      size |-> Cardinality(Entries), timeout |-> to]
    /\ UNCHANGED <<thr, pool, db, hist, cons, conf>>

\* for c in self._connections.values(): the next value, RuntimeError when the
\* dict has changed size since the iteration began, or the end of the loop.
\* Then c.close(timeout) up to the return of its wait, or to where it blocks.
CloseAllNext ==
    /\ closer.pc = "iter"
    /\ IF Cardinality(Entries) # closer.size
       THEN /\ closer' = [closer EXCEPT !.pc = "raised"]
            /\ conn' = conn
       ELSE IF Entries \ closer.seen = {}
       THEN /\ closer' = [closer EXCEPT !.pc = "clear"]
            /\ conn' = conn
       ELSE \E t \in Entries \ closer.seen :
                /\ closer' = [closer EXCEPT
                                  !.pc = IF IdleWaitOver(connections[t])
                                         THEN "phys" ELSE "wait",
                                  !.seen = @ \cup {t},
                                  !.c = connections[t]]
                /\ conn' = CloseBegin(connections[t])
    /\ UNCHANGED <<thr, connections, nconn, db, hist, cons, conf, ninval>>

\* c.close(timeout): self.is_idle.wait(timeout=timeout), the timeout runs out
CloseAllWait ==
    /\ closer.pc = "wait"
    /\ closer.timeout
    /\ closer' = [closer EXCEPT !.pc = "phys"]
    /\ UNCHANGED <<thr, pool, db, hist, cons, conf, ninval>>

\* c.close(timeout): self.c.close()
CloseAllPhys ==
    /\ closer.pc = "phys"
    /\ conn' = ClosePhysical(closer.c)
    /\ prow' = [prow EXCEPT ![closer.c] = {}]
    /\ ptrk' = [ptrk EXCEPT ![closer.c] = {}]
    /\ hit' = HitBy(closer.c)
    /\ closer' = [closer EXCEPT !.pc = "iter"]
    /\ UNCHANGED <<pc, op, cur, exc, idx, wnid, res, did, connections, nconn,
                   events, tracking, seq, hist, cons, conf, ninval>>

\* self._connections.clear()
CloseAllClear ==
    /\ closer.pc = "clear"
    /\ connections' = [t \in Threads |-> NoConn]
    /\ closer' = [closer EXCEPT !.pc = "done"]
    /\ UNCHANGED <<thr, conn, nconn, db, hist, cons, conf, ninval>>

\* ---------------------------------------------------------------- specification
Writer(t) ==
    \/ CallInsert(t, Batches, TrackedOrNot)
    \/ InsertRow(t)
    \/ InsertResume(t)
    \/ InsertTracking(t)
    \/ DeadlockDetected(t)

Consumer(t) ==
    \/ CallNotifications(t)
    \/ SelectNotificationsStep(t)

Operation(t) ==
    \/ TxLookup(t)
    \/ TxCheck(t)
    \/ TxCreate(t)
    \/ Enter(t)
    \/ Exit(t)
    \/ CcPop(t)
    \/ CcWait(t)

Next ==
    \/ \E t \in Writers : Writer(t)
    \/ \E t \in Writers : Operation(t)

Spec == Init /\ [][Next]_vars

\* Writers whose batches may hold a row without originator_id, under failures
\* of the database.
NullWriter(t) ==
    \/ CallInsert(t, NullBatches, TrackedOrNot)
    \/ InsertRow(t)
    \/ InsertResume(t)
    \/ InsertTracking(t)
    \/ StatementFails(t)
    \/ Operation(t)

NextNull == \E t \in Writers : NullWriter(t)

SpecNull == Init /\ [][NextNull]_vars

\* Writers of one-row batches and the consumer of the notification log.
OneRowBatches == {<<<<"a", 1>>>>, <<<<"a", 2>>>>}

NotifyWriter(t) ==
    \/ CallInsert(t, OneRowBatches, Untracked)
    \/ InsertRow(t)
    \/ InsertResume(t)

Session(t) ==
    \/ TxLookup(t)
    \/ TxCheck(t)
    \/ TxCreate(t)
    \/ Enter(t)
    \/ Exit(t)

NextNotify ==
    \/ \E t \in Writers : NotifyWriter(t)
    \/ Consumer(Reader)
    \/ \E t \in Threads : Session(t)

SpecNotify == Init /\ [][NextNotify]_vars

\* The connection pool under expiry timers, close_all_connections and failures
\* of the database: two threads that read.
PoolThreads == {1, 2}

InitPool ==
    /\ InitState({[ev |-> {}, tr |-> {}, seq |-> 0]})
    /\ cfg \in [max_age : {TRUE}, pre_ping : BOOLEAN]

PoolThread(t) ==
    \/ CallRead(t, TRUE)
    \/ ReadStep(t)
    \/ TxPing(t)
    \/ Operation(t)
    \/ StatementFails(t)
    \/ ConnectFails(t)
    \/ PingFails(t)

\* The thread with identifier t ends between two operations; the next thread
\* that starts is given the same identifier (threading.get_ident() values are
\* recycled) and has made no call yet. The map keeps the entry of t.
ThreadEnds(t) ==
    /\ pc[t] = "idle"
    /\ gen[t] < MaxGen
    /\ gen' = [gen EXCEPT ![t] = @ + 1]
    /\ op' = [op EXCEPT ![t] = NoOp]
    /\ cur' = [cur EXCEPT ![t] = NoConn]
    /\ res' = [res EXCEPT ![t] = "none"]
    /\ did' = [did EXCEPT ![t] = "none"]
    /\ hit' = [hit EXCEPT ![t] = "none"]
    /\ UNCHANGED <<pc, exc, idx, wnid, pool, db, hist, cons, cfg, example, closer, ninval>>

Timer(c) ==
    \/ TimerFire(c)
    \/ TimerClose(c)

CloseAll ==
    \/ CloseAllStart
    \/ CloseAllNext
    \/ CloseAllWait
    \/ CloseAllPhys
    \/ CloseAllClear

NextPool ==
    \/ \E t \in PoolThreads : PoolThread(t)
    \/ \E c \in Conns : Timer(c)
    \/ CloseAll

SpecPool == InitPool /\ [][NextPool]_vars

\* A writer of one-row batches and a thread that calls select_events, over an
\* events table that holds rows of two aggregates or none.
EventStores ==
    {[ev |-> {}, tr |-> {}, seq |-> 0],
     [ev |-> {[key |-> <<"a", 3>>, nid |-> 1, by |-> 0, ct |-> 0],
              [key |-> <<"b", 1>>, nid |-> 2, by |-> 0, ct |-> 0]}, tr |-> {}, seq |-> 2]}

InitEvents ==
    /\ InitState(EventStores)
    /\ cfg = [max_age |-> FALSE, pre_ping |-> FALSE]

EventsReader(t) ==
    \/ CallSelectEvents(t)
    \/ SelectEventsStep(t)
    \/ Session(t)

NextEvents ==
    \/ CallInsert(1, OneRowBatches, Untracked)
    \/ InsertRow(1)
    \/ Session(1)
    \/ EventsReader(Reader)

SpecEvents == InitEvents /\ [][NextEvents]_vars

\* Writers of one-row batches and a thread that asks for the largest
\* notification id.
MaxReader(t) ==
    \/ CallMaxNotificationId(t)
    \/ MaxNotificationIdStep(t)
    \/ Session(t)

NextMax ==
    \/ \E t \in Writers : NotifyWriter(t)
    \/ \E t \in Writers : Session(t)
    \/ MaxReader(Reader)

SpecMax == Init /\ [][NextMax]_vars

\* A writer of one-row batches, with and without a tracking pair, and a thread
\* that asks for the largest tracked id of an application.
TrackingWriter(t) ==
    \/ CallInsert(t, OneRowBatches, TrackedPairsOrNot)
    \/ InsertRow(t)
    \/ InsertTracking(t)
    \/ Session(t)

TrackingReader(t) ==
    \/ CallMaxTrackingId(t)
    \/ MaxTrackingIdStep(t)
    \/ Session(t)

NextTracking ==
    \/ TrackingWriter(1)
    \/ TrackingReader(Reader)

SpecTracking == Init /\ [][NextTracking]_vars

\* ---------------------------------------------------------------- examples/aggregate5
\* The names, the tricks and the identifiers uuid4() may draw. (The
\* timestamps of events and aggregates are left out.)
Names == {"Fido", "Rex"}
Tricks == {"sit", "roll", "paw"}
Uuids == {"u1", "u2"}

\* Dog.register(name): a Registered event of a new id, at version 1.
Register(id, name) ==
    [kind |-> "Registered", originator_id |-> id, originator_version |-> 1, name |-> name]

\* Mutant: originator_version=self.version.
TriggerEvent_SameVersion(self, kind, trick) ==
    [kind |-> kind, originator_id |-> self.id, originator_version |-> self.version,
     trick |-> trick]

\* Aggregate.trigger_event(event_class, **kwargs): the keyword arguments, the
\* aggregate's id and its version plus one.
TriggerEvent(self, kind, trick) ==
    [kind |-> kind, originator_id |-> self.id, originator_version |-> self.version + 1,
     trick |-> trick]

\* Dog.add_trick(trick)
AddTrick(self, trick) == TriggerEvent(self, "TrickAdded", trick)

\* Dog.mutate(event, aggregate)
Mutate(event, aggregate) ==
    IF event.kind = "Registered"
    THEN [kind |-> "Dog", id |-> event.originator_id, version |-> event.originator_version,
          name |-> event.name, tricks |-> <<>>]
    ELSE IF event.kind = "TrickAdded"
    THEN IF aggregate = None
         THEN [kind |-> "AssertionError"]
         ELSE [kind |-> "Dog", id |-> aggregate.id, version |-> event.originator_version,
               name |-> aggregate.name, tricks |-> Append(aggregate.tricks, event.trick)]
    ELSE IF event.kind = "Snapshot"
    THEN [kind |-> "Dog", id |-> event.state.id, version |-> event.state.version,
          name |-> event.state.name, tricks |-> event.state.tricks]
    ELSE [kind |-> "NotImplementedError"]

\* Aggregate.projector(aggregate, events)
RECURSIVE Projector(_, _)
Projector(aggregate, evs) ==
    IF evs = <<>> THEN aggregate
    ELSE Projector(Mutate(Head(evs), aggregate), Tail(evs))

\* The application registers a dog and keeps the aggregate of the event.
DogRegisters ==
    /\ example.events = <<>>
    /\ \E id \in Uuids, n \in Names :
           LET e == Register(id, n)
           IN  example' = [events |-> <<e>>, dog |-> Mutate(e, None), name |-> n,
                           tricks |-> <<>>]
    /\ UNCHANGED <<thr, pool, db, hist, cons, cfg, gen, closer, ninval>>

\* The application adds a trick to the aggregate of the events so far.
DogAddsTrick ==
    /\ example.events # <<>>
    /\ Len(example.tricks) < MaxTricks
    /\ \E k \in Tricks :
           LET e == AddTrick(example.dog, k)
           IN  example' = [events |-> Append(example.events, e),
                           dog |-> Mutate(e, example.dog),
                           name |-> example.name,
                           tricks |-> Append(example.tricks, k)]
    /\ UNCHANGED <<thr, pool, db, hist, cons, cfg, gen, closer, ninval>>

NextDog == DogRegisters \/ DogAddsTrick

SpecDog == Init /\ [][NextDog]_vars

\* One thread that writes one-row batches, some of them in conflict with what
\* is committed, on a pool with or without expiry and pre-ping, under failures
\* of the database.
InitConflict ==
    /\ InitState(StoresAtStart)
    /\ cfg \in [max_age : BOOLEAN, pre_ping : BOOLEAN]

ConflictWriter(t) ==
    \/ CallInsert(t, OneRowBatches, Untracked)
    \/ InsertRow(t)
    \/ TxPing(t)
    \/ Operation(t)
    \/ StatementFails(t)
    \/ ConnectFails(t)
    \/ PingFails(t)

NextConflict ==
    \/ ConflictWriter(1)
    \/ \E c \in Conns : Timer(c)

SpecConflict == InitConflict /\ [][NextConflict]_vars

\* The pool without expiry, used by threads that end and by threads that are
\* given their identifiers.
InitReuse ==
    /\ InitState({[ev |-> {}, tr |-> {}, seq |-> 0]})
    /\ cfg \in [max_age : {FALSE}, pre_ping : BOOLEAN]

NextReuse ==
    \/ \E t \in PoolThreads : PoolThread(t)
    \/ \E t \in PoolThreads : ThreadEnds(t)
    \/ CloseAll

SpecReuse == InitReuse /\ [][NextReuse]_vars

\* Threads that never stop calling, and the timers of their connections. The
\* threads' steps and a timer thread's close after its wait has returned are
\* scheduled fairly; a timer only goes off while its thread can still replace
\* the connection.
OwnerStep(t) ==
    \/ CallRead(t, FALSE)
    \/ ReadStep(t)
    \/ TxPing(t)
    \/ Session(t)

TimerFireLive(c) ==
    /\ nconn[c[1]] < MaxPerThread
    /\ TimerFire(c)

NextLive ==
    \/ \E t \in PoolThreads : OwnerStep(t)
    \/ \E c \in Conns : TimerFireLive(c)
    \/ \E c \in Conns : TimerClose(c)

LivePool ==
    /\ InitPool
    /\ [][NextLive]_vars
    /\ \A t \in PoolThreads : WF_vars(OwnerStep(t))
    /\ \A c \in Conns : WF_vars(TimerClose(c))

\* ================================================================ claims
RowsBy(id) == {r \in events : r.by = id}
TrackingBy(id) == {r \in tracking : r.by = id}
KeysOf(b) == {b[i] : i \in 1..Len(b)}
Returned(t) == pc[t] = "idle" /\ op[t].kind = "insert"

\* Two insert_events calls that ran at the same time, have both returned, and
\* whose batches propose a common (originator_id, originator_version).
RacedOnAKey ==
    /\ Returned(1) /\ Returned(2)
    /\ overlap
    /\ KeysOf(op[1].batch) \cap KeysOf(op[2].batch) # {}

\* The call collides with nothing but the other call: its batch names no key
\* twice, and neither a key nor the tracking pair of it was committed by a
\* third call.
OnlyRival(t, u) ==
    /\ Cardinality(KeysOf(op[t].batch)) = Len(op[t].batch)
    /\ \A r \in events : r.by \notin {op[t].id, op[u].id} => r.key \notin KeysOf(op[t].batch)
    /\ \A r \in tracking : r.by \notin {op[t].id, op[u].id} => r.pair # op[t].trk

\* C1 as stated: of two concurrent insert_events calls proposing the same key,
\* exactly one commits, the other raises RecordConflictError and leaves no row.
C1_ExactlyOneWins ==
    RacedOnAKey =>
        \E w \in Writers : \E l \in Writers \ {w} :
            /\ res[w] = "ok"
            /\ res[l] = "conflict"
            /\ RowsBy(op[l].id) = {}

\* C1 as amended: of two concurrent insert_events calls proposing the same key
\* at most one commits, and a call that does not commit raises
\* RecordConflictError or OperationalError and leaves no row; exactly one
\* commits and the other raises RecordConflictError when neither is aborted
\* with OperationalError and neither collides with anything but the other call.
C1_AtMostOneWins ==
    RacedOnAKey =>
        /\ ~(res[1] = "ok" /\ res[2] = "ok")
        /\ \A l \in Writers :
               res[l] # "ok" => res[l] \in {"conflict", "operr"} /\ RowsBy(op[l].id) = {}
        /\ (res[1] # "operr" /\ res[2] # "operr" /\ OnlyRival(1, 2) /\ OnlyRival(2, 1))
               => \E w \in Writers : \E l \in Writers \ {w} :
                      res[w] = "ok" /\ res[l] = "conflict"

C1_Witness ==
    /\ RacedOnAKey
    /\ OnlyRival(1, 2) /\ OnlyRival(2, 1)
    /\ res[1] = "ok" /\ res[2] = "conflict"
    /\ RowsBy(op[1].id) # {}

\* C2 as stated: insert_events with a tracking pair that is already committed
\* raises RecordConflictError and none of its events or tracking rows becomes
\* visible; events and tracking row of a call are visible together or not at all.
TrackedTogether(t) ==
    op[t].kind = "insert" /\ op[t].trk # NoTrk =>
        /\ TrackingBy(op[t].id) # {} =>
               {r.key : r \in RowsBy(op[t].id)} = KeysOf(op[t].batch)
        /\ RowsBy(op[t].id) # {} => TrackingBy(op[t].id) # {}
        /\ (pc[t] = "idle" /\ res[t] = "ok") => TrackingBy(op[t].id) # {}

C2_DuplicateTrackingConflicts ==
    \A t \in Writers :
        /\ (Returned(t) /\ op[t].dup) =>
               /\ res[t] = "conflict"
               /\ RowsBy(op[t].id) = {} /\ TrackingBy(op[t].id) = {}
        /\ TrackedTogether(t)

\* C2 as amended: the call with an already committed tracking pair never
\* commits: it raises RecordConflictError, or OperationalError when the server
\* aborts it first (as the victim of a deadlock); none of its events or
\* tracking rows becomes visible; events and tracking row of a call are
\* visible together or not at all.
C2_DuplicateTrackingNeverCommits ==
    \A t \in Writers :
        /\ (op[t].kind = "insert" /\ op[t].dup) =>
               /\ RowsBy(op[t].id) = {} /\ TrackingBy(op[t].id) = {}
               /\ pc[t] = "idle" => res[t] \in {"conflict", "operr"}
        /\ TrackedTogether(t)

C2_Witness ==
    \E t \in Writers :
        /\ Returned(t) /\ op[t].dup /\ op[t].batch # <<>> /\ res[t] = "conflict"
        /\ \E u \in Writers \ {t} :
               /\ Returned(u) /\ op[u].trk # NoTrk /\ res[u] = "ok"
               /\ TrackingBy(op[u].id) # {} /\ RowsBy(op[u].id) # {}

\* C3: insert_events is all-or-nothing: a call that returned normally has
\* committed every row of its batch, and a call that raised (or has not
\* returned yet) has no row among the committed events.
C3_AllOrNothing ==
    \A t \in Writers :
        op[t].kind = "insert" =>
            IF pc[t] = "idle" /\ res[t] = "ok"
            THEN /\ {r.key : r \in RowsBy(op[t].id)} = KeysOf(op[t].batch)
                 /\ Cardinality(RowsBy(op[t].id)) = Len(op[t].batch)
            ELSE RowsBy(op[t].id) = {}

\* A batch collided on its second row after the first one was inserted.
C3_Witness ==
    \E t \in Writers :
        /\ Returned(t) /\ res[t] = "conflict"
        /\ op[t].batch = <<(<<"a", 2>>), (<<"a", 1>>)>>
        /\ HasKey(events, <<"a", 1>>) /\ ~HasKey(events, <<"a", 2>>)
        /\ RowsBy(op[t].id) = {}

\* C4: a consumer that pages with start one past the last id it received is
\* never handed an id twice and misses no committed notification: every
\* committed id up to the last one it received has been delivered to it.
C4_NoNotificationMissed ==
    /\ ~redelivered
    /\ \A r \in events : r.nid <= lastid => r.nid \in received

\* C5: notification ids follow commit order: of two committed events written
\* by different insert_events transactions, the one committed first has the
\* smaller notification id.
C5_IdsFollowCommitOrder ==
    \A r1 \in events : \A r2 \in events :
        (r1.by # r2.by /\ r1.ct < r2.ct) => r1.nid < r2.nid


\* A thread holds a Transaction on c that has not exited yet.
ScopePcs ==
    {"tx_ping", "enter", "ins", "ins_wait", "trk", "trk_wait", "sel", "sev", "mxn", "mxt",
     "rd", "exit"}
ScopeOpen(c) == \E t \in Threads : cur[t] = c /\ pc[t] \in ScopePcs
TimerCloses(c) == conn[c].timer = "close" /\ conn'[c].timer = "done"

\* C6 as stated: the timer-driven close never closes the session while a
\* transaction scope on the connection has not exited: the physical close
\* happens only when the connection's idle flag is set.
C6_ClosesOnlyWhenIdle ==
    [][\A c \in Conns : TimerCloses(c) => (~ScopeOpen(c) /\ conn[c].is_idle)]_vars

\* C6 as amended: the timer-driven close never closes the session while a
\* transaction scope on the connection has not exited (the idle flag was set
\* when the timer's wait returned, but need not be set any more at the close).
C6_NeverClosesOpenScope ==
    [][\A c \in Conns : TimerCloses(c) => ~ScopeOpen(c)]_vars

\* The timer has closed c after its wait for the idle flag returned; the flag
\* was cleared again before the close by the thread that used c, which is now
\* inside a scope on the connection that replaced c.
C6_Witness ==
    \E c \in Conns :
        /\ conn[c].timer = "done" /\ conn[c].closed
        /\ ~conn[c].is_idle
        /\ \E t \in Threads : cur[t] # c /\ cur[t][1] = c[1] /\ pc[t] \in ScopePcs

\* C7: once a connection's expiry timer has fired, the session is eventually
\* closed, while the owning thread keeps calling.
TimerFired(c) == conn[c].timer \in {"wait", "close"}

C7_TimerAlwaysCloses ==
    \A c \in Conns : TimerFired(c) ~> conn[c].closed

Exits(t) == pc[t] = "exit" /\ pc'[t] # "exit"
Returns(t) == pc[t] # "idle" /\ pc'[t] = "idle"

\* C8: every exit of an entered Transaction scope invokes exactly one of
\* commit (the body raised nothing) and rollback (it raised), and has set the
\* connection's idle flag when control returns, also when that call raises.
C8_ExitCommitsOrRollsBack ==
    [][\A t \in Threads :
          Exits(t) =>
              /\ did'[t] = (IF exc[t] = "none" THEN "commit" ELSE "rollback")
              /\ conn'[cur[t]].is_idle]_vars

\* commit() raised on a session that was closed under the scope; the idle flag
\* is set all the same.
C8_Witness ==
    \E t \in Threads :
        /\ pc[t] = "cc_pop" /\ did[t] = "commit" /\ exc[t] = "error"
        /\ conn[cur[t]].closed /\ conn[cur[t]].is_idle

Reconnected(t) ==
    /\ res'[t] = "ok"
    /\ cur[t] # op[t].stale
    /\ ~conn[cur[t]].closed

\* C9 as stated: when the session of the thread's pooled connection has been
\* closed while the connection stayed in the pool map, the thread's next
\* operation gets a newly created, open connection and returns without raising,
\* provided the database does not fail.
C9_AlwaysReconnects ==
    [][\A t \in Threads :
          (Returns(t) /\ op[t].stale # NoConn /\ hit[t] # "fault") => Reconnected(t)]_vars

\* C9 as amended: the same, provided also that the session of the newly
\* created connection is not closed under the operation in its turn.
C9_ReconnectsUnlessClosedAgain ==
    [][\A t \in Threads :
          (Returns(t) /\ op[t].stale # NoConn /\ hit[t] = "none") => Reconnected(t)]_vars

\* The operation began with a closed session in the map and has returned
\* normally from a new connection, now the thread's entry.
C9_Witness ==
    \E t \in Threads :
        /\ pc[t] = "idle" /\ op[t].stale # NoConn /\ hit[t] = "none"
        /\ res[t] = "ok" /\ cur[t] # op[t].stale
        /\ connections[t] = cur[t]

\* C10: when an operation raises OperationalError, on return the calling
\* thread has no entry in the pool map and the connection it had is closed;
\* close_connection() leaves the entries of all other threads unchanged.
C10_OperationalErrorInvalidates ==
    [][\A t \in Threads :
          /\ (Returns(t) /\ res'[t] = "operr") =>
                 /\ connections'[t] = NoConn
                 /\ cur[t] # NoConn => conn'[cur[t]].closed
          /\ (pc[t] \in {"cc_pop", "cc_wait"} /\ pc'[t] # pc[t]) =>
                 \A u \in Threads \ {t} : connections'[u] = connections[u]]_vars

\* C11: insert_events raises RecordConflictError only when the write violated
\* the uniqueness of (originator_id, originator_version) or of the tracking
\* pair; every other failure, a NOT NULL violation included, is raised as
\* OperationalError.
C11_ConflictOnlyForUniqueness ==
    [][\A t \in Writers :
          (Returns(t) /\ op[t].kind = "insert") =>
              /\ res'[t] = "conflict" => exc[t] = "integrity"
              /\ exc[t] \notin {"none", "integrity"} => res'[t] = "operr"]_vars

\* C12: when close_all_connections(timeout) returns, the pool map is empty and
\* every connection it removed from the map is physically closed, whatever
\* other threads do with the map meanwhile.
C12_CloseAllClosesWhatItRemoves ==
    [][(closer.pc = "clear" /\ closer'.pc = "done") =>
          /\ \A t \in Threads : connections'[t] = NoConn
          /\ \A t \in Threads :
                 connections[t] # NoConn => conn'[connections[t]].closed]_vars

\* transaction() returns to thread t; it has made a new connection or not.
TxReturns(t) == pc[t] \in {"tx_check", "tx_ping", "tx_create"} /\ pc'[t] = "enter"
Fresh(t) == nconn'[t] = nconn[t] + 1
Unusable(c) == c = NoConn \/ conn[c].is_closing \/ conn[c].closed

TransactionReturns(t, pingfailed) ==
    /\ (pc[t] = "tx_lookup" /\ pc'[t] # "tx_lookup" /\ connections[t] = NoConn) =>
           pc'[t] = "tx_create"
    /\ (pc[t] = "tx_check" /\ pc'[t] # "tx_check" /\ Unusable(cur[t])) =>
           pc'[t] = "tx_create"
    /\ (TxReturns(t) /\ Fresh(t)) =>
           /\ Unusable(cur[t]) \/ pingfailed
           /\ cur'[t] \notin {cur[t], op[t].unfit}
           /\ connections'[t] = cur'[t]
           /\ conn'[cur'[t]] = NewConnection(t)
    /\ (TxReturns(t) /\ ~Fresh(t)) =>
           /\ cur'[t] = cur[t] /\ connections'[t] = connections[t]
           /\ cur'[t] # op[t].unfit

\* C13 as stated: transaction() makes a new connection and stores it as the
\* thread's map entry when the thread has no entry and when the stored
\* connection has its closing flag set or its session closed, so it never
\* returns a connection that was closing or closed when the call began; in
\* every other case it returns the stored connection.
C13_FreshOnlyWhenClosingOrClosed ==
    [][\A t \in Threads : TransactionReturns(t, FALSE)]_vars

\* C13 as amended: the same, but with pre_ping the stored connection is also
\* replaced by a new one when its ping fails.
C13_FreshAlsoWhenPingFails ==
    [][\A t \in Threads :
          TransactionReturns(t, cfg.pre_ping /\ hit[t] = "fault")]_vars

\* transaction() has returned a new connection, now the thread's entry, in
\* place of the stored one that was closing when the call began.
C13_Witness ==
    \E t \in Threads :
        /\ pc[t] = "enter" /\ op[t].unfit # NoConn
        /\ cur[t] # op[t].unfit /\ connections[t] = cur[t]
        /\ ~conn[cur[t]].is_closing /\ ~conn[cur[t]].closed

\* Thread t holds a Transaction that transaction() returned, bound to c.
Bound(t, c) == cur[t] = c /\ pc[t] \in ScopePcs \ {"tx_ping"}

\* C14: no Connection is stored under two thread ids, and a Transaction that
\* transaction() returned to a thread is bound to a connection that this very
\* thread created: no connection passes from one thread to another.
C14_OwnConnectionOnly ==
    /\ \A t, u \in Threads :
           (t # u /\ connections[t] # NoConn) => connections[t] # connections[u]
    /\ \A t \in Threads : \A c \in Conns :
           Bound(t, c) => (c[1] = t /\ conn[c].maker = gen[t])

\* The committed events of the aggregate within the version bounds.
InRange(o) ==
    {k \in {e.key : e \in events} :
        /\ k[1] = o.oid
        /\ o.gt # {} => \A g \in o.gt : k[2] > g
        /\ o.lte # {} => \A l \in o.lte : k[2] <= l}

Before(j, k, desc) == IF desc THEN j[2] > k[2] ELSE j[2] < k[2]
Elems(q) == {q[i] : i \in 1..Len(q)}

\* C15: select_events returns exactly the committed events of the
\* originator_id with version > gt and <= lte, in ascending (descending with
\* desc) version order, cut to the first limit of them, and changes nothing in
\* the store.
C15_SelectEventsRange ==
    [][\A t \in Threads :
          (pc[t] = "sev" /\ pc'[t] = "exit" /\ exc'[t] = "none") =>
              LET o == op[t]
                  q == ret'[t]
              IN  /\ Elems(q) \subseteq InRange(o)
                  /\ \A i, j \in 1..Len(q) : i < j => Before(q[i], q[j], o.desc)
                  /\ \A k \in InRange(o) \ Elems(q) :
                         /\ o.lim = {Len(q)}
                         /\ \A i \in 1..Len(q) : Before(q[i], k, o.desc)
                  /\ \A n \in o.lim : Len(q) <= n
                  /\ UNCHANGED db]_vars

\* A descending select with a limit has returned the two highest of three
\* committed versions.
C15_Witness ==
    \E t \in Threads :
        /\ pc[t] = "exit" /\ op[t].kind = "events" /\ op[t].desc /\ op[t].lim = {2}
        /\ ret[t] = <<<<"a", 3>>, <<"a", 2>>>>
        /\ Cardinality(InRange(op[t])) = 3

\* The committed notification ids from start on.
FromStart(o) == {e.nid : e \in {r \in events : r.nid >= o.start}}

\* C16: select_notifications(start, limit) returns committed notifications
\* with id >= start in strictly ascending order of id: the min(limit, number of
\* them) smallest, with none skipped in between.
C16_SelectNotificationsPage ==
    [][\A t \in Threads :
          (pc[t] = "sel" /\ pc'[t] = "exit" /\ exc'[t] = "none") =>
              LET o == op[t]
                  q == ret'[t]
              IN  /\ Elems(q) \subseteq FromStart(o)
                  /\ \A i, j \in 1..Len(q) : i < j => q[i] < q[j]
                  /\ Len(q) = (IF o.limit < Cardinality(FromStart(o))
                               THEN o.limit ELSE Cardinality(FromStart(o)))
                  /\ \A n \in FromStart(o) \ Elems(q) :
                         \A i \in 1..Len(q) : q[i] < n]_vars

\* A page cut by the limit: a committed id above the page is left out.
C16_Witness ==
    \E t \in Threads :
        /\ pc[t] = "exit" /\ op[t].kind = "notifications"
        /\ Len(ret[t]) = op[t].limit
        /\ \E n \in FromStart(op[t]) : \A i \in 1..Len(ret[t]) : ret[t][i] < n

\* The operation of thread t has run its one statement and hands its value back.
Answers(t, kind) == op[t].kind = kind /\ pc[t] = "exit" /\ Len(ret[t]) = 1

CommittedIds == {e.nid : e \in events}

\* C17: max_notification_id() returns 0 if no event is committed and otherwise
\* the largest notification id among the committed events; an id drawn by a
\* transaction that rolled back (or has not committed) is never reported.
C17_MaxNotificationId ==
    [][\A t \in Threads :
          pc[t] = "mxn" /\ Len(ret'[t]) = 1 =>
              LET n == ret'[t][1]
              IN  /\ CommittedIds = {} => n = 0
                  /\ CommittedIds # {} =>
                         n \in CommittedIds /\ \A i \in CommittedIds : i <= n]_vars

\* max_notification_id() has answered with a committed id while a larger id
\* was drawn by a transaction that rolled back: no open transaction holds a row.
C17_Witness ==
    \E t \in Threads :
        /\ Answers(t, "max_notification_id")
        /\ ret[t][1] > 0 /\ ret[t][1] < seq
        /\ \A c \in Conns : prow[c] = {}
        /\ \A e \in events : e.nid <= ret[t][1]

TrackedIds(a) == {r.pair[2] : r \in {x \in tracking : x.pair[1] = a}}

\* C18: max_tracking_id(application_name) returns 0 when that application has
\* no committed tracking row and otherwise the largest notification_id among
\* the committed tracking rows of that application; rows of other applications
\* and of transactions that did not commit do not count.
C18_MaxTrackingId ==
    [][\A t \in Threads :
          pc[t] = "mxt" /\ Len(ret'[t]) = 1 =>
              LET n == ret'[t][1]
                  mine == TrackedIds(op[t].app)
              IN  /\ mine = {} => n = 0
                  /\ mine # {} => n \in mine /\ \A i \in mine : i <= n]_vars

\* max_tracking_id("p") has answered with p's largest committed id while
\* another application has a larger committed id and a call that proposed a
\* tracking pair of p was rolled back.
C18_Witness ==
    \E t \in Threads :
        /\ Answers(t, "max_tracking_id") /\ op[t].app = "p"
        /\ ret[t][1] > 0
        /\ \E r \in tracking : r.pair[1] = "q" /\ r.pair[2] > ret[t][1]
        /\ \E w \in Writers :
               /\ res[w] = "conflict" /\ op[w].trk # NoTrk /\ op[w].trk[1] = "p"

\* C19: for a Dog started by register(name) and followed by n add_trick calls,
\* each made on the aggregate of all earlier events, the events carry the
\* versions 1..n+1 and Dog.projector(None, events) is a Dog of version n+1,
\* of the registered name, with exactly the n added tricks in insertion order.
C19_DogReplay ==
    example.events # <<>> =>
        LET n == Len(example.events) - 1
            d == Projector(None, example.events)
        IN  /\ n = Len(example.tricks)
            /\ \A i \in 1..(n + 1) : example.events[i].originator_version = i
            /\ d.kind = "Dog"
            /\ d.version = n + 1
            /\ d.name = example.name
            /\ d.tricks = example.tricks

\* A dog that was taught three tricks, one of them twice and not in a row.
C19_Witness ==
    /\ Len(example.events) = 4
    /\ example.tricks[1] = example.tricks[3]
    /\ example.tricks[1] # example.tricks[2]
    /\ Projector(None, example.events).tricks = example.tricks

\* C20: the close_connection() call of a recorder's psycopg2.Error handler
\* never blocks forever: whenever the handler has taken the connection stored
\* for its thread and stands at the wait inside Connection.close(), that
\* connection's idle flag is set.
C20_HandlerCloseReturns ==
    \A t \in Threads : pc[t] = "cc_wait" => conn[cur[t]].is_idle

\* insert_events raises RecordConflictError to thread t.
ConflictReturns(t) == pc[t] # "idle" /\ pc'[t] = "idle" /\ res'[t] = "conflict"

\* The expiry timer of c has gone off.
Expired(c) == conn[c].timer \notin {"none", "armed"}

\* The connection of the call that raises RecordConflictError is left as the
\* thread's map entry, open, with its idle flag set, and with its closing flag
\* clear unless its timer has gone off.
ConflictKeeps(t) ==
    ConflictReturns(t) =>
        LET c == cur[t]
        IN  /\ connections'[t] = c
            /\ ~conn'[c].closed
            /\ conn'[c].is_idle
            /\ ~Expired(c) => ~conn'[c].is_closing

\* transaction() returns to a thread whose previous call raised
\* RecordConflictError.
ReturnsAfterConflict(t) == TxReturns(t) /\ op[t].after = "conflict"

\* C21 as stated: when insert_events raises RecordConflictError the thread's
\* connection stays in the map, open, not closing and idle, and the thread's
\* next transaction() returns that connection unless it has expired.
C21_ConflictKeepsConnection ==
    [][\A t \in Threads :
          /\ ConflictKeeps(t)
          /\ ReturnsAfterConflict(t) =>
                 cur'[t] = op[t].prev \/ Expired(op[t].prev)]_vars

\* C21 as amended: the same, but with pre_ping the next transaction() returns a
\* new connection also when the ping of the kept connection fails.
C21_ConflictKeepsUnlessPingFails ==
    [][\A t \in Threads :
          /\ ConflictKeeps(t)
          /\ ReturnsAfterConflict(t) =>
                 \/ cur'[t] = op[t].prev
                 \/ Expired(op[t].prev)
                 \/ cfg.pre_ping /\ hit[t] = "fault"]_vars

\* The call after a RecordConflictError has been given the connection of the
\* call that raised it, on a pool with expiry: the timer has not gone off.
C21_Witness ==
    \E t \in Threads :
        /\ pc[t] = "enter" /\ op[t].after = "conflict"
        /\ cur[t] = op[t].prev /\ connections[t] = cur[t]
        /\ cfg.max_age /\ conn[cur[t]].timer = "armed"
        /\ ~conn[cur[t]].is_closing /\ ~conn[cur[t]].closed

====
